---- MODULE Spec2Model ----
(***************************************************************************)
(* Model of src/src/main.mts: the Uniswap v2 pair tag service.             *)
(*                                                                         *)
(* A JavaScript string is modelled as a sequence of one-character strings, *)
(* so that length, trim, substring, the HTML regular expression and the    *)
(* number conversions are computed as the code computes them.  Literal     *)
(* text that the code only copies (message prefixes, the URL template's    *)
(* fixed parts) is kept as one opaque fragment of such a sequence.         *)
(* An optional JavaScript value (undefined / null / NaN against a value)   *)
(* is a sequence of length 0 or 1.                                         *)
(***************************************************************************)
EXTENDS Integers, Sequences, FiniteSets

VARIABLES pc, awaiting, inflight, db, chainId, url, lastTimestamp, allTags, isMore, counter,
          fetchCalls, responses, pages, thrown, settled, outcome, stderr, stdout

vars == <<pc, awaiting, inflight, db, chainId, url, lastTimestamp, allTags, isMore, counter,
          fetchCalls, responses, pages, thrown, settled, outcome, stderr, stdout>>

-----------------------------------------------------------------------------
(* Bounds of the model *)

\* Largest number of full (1000-record) pages the upstream database holds.
MaxFullPages == 2
\* createdAtTimestamp of the oldest pair is BaseTimestamp + 1 or later.
BaseTimestamp == 1588610000

(* Program constants *)

\* first: 1000 in GET_POOLS_QUERY and pairs.length === 1000 in returnTags
PageSize == 1000
\* const maxSymbolsLength = 45
maxSymbolsLength == 45
\* maxLength - 3 in truncateString
EllipsisLength == 3
\* the radix of parseInt(..., 10)
Radix == 10

-----------------------------------------------------------------------------
(* Optional values *)

Absent == <<>>
Some(x) == <<x>>
IsPresent(o) == Len(o) > 0
Get(o) == o[1]

-----------------------------------------------------------------------------
(* Strings *)

Min(a, b) == IF a < b THEN a ELSE b

Digits == <<"0", "1", "2", "3", "4", "5", "6", "7", "8", "9">>
DigitChars == {Digits[i] : i \in 1..Len(Digits)}
DigitValue(c) == (CHOOSE i \in 1..Len(Digits) : Digits[i] = c) - 1

\* The white space String.prototype.trim and Number() strip (the characters
\* of it that the inputs of this model use).
WhiteSpace == {" ", "\t", "\n"}

\* String.prototype.substring(start, end) with 0 <= start <= end, clamped to
\* the length of the string.
Substring(s, start, end) == SubSeq(s, Min(start, Len(s)) + 1, Min(end, Len(s)))

\* String.prototype.trim
Trim(s) ==
  LET keep == {i \in 1..Len(s) : s[i] \notin WhiteSpace}
  IN  IF keep = {} THEN <<>>
      ELSE LET lo == CHOOSE i \in keep : \A j \in keep : i <= j
               hi == CHOOSE i \in keep : \A j \in keep : j <= i
           IN  SubSeq(s, lo, hi)

\* Number.prototype.toString of a non-negative integer below 10^21
RECURSIVE NumberToString(_)
NumberToString(n) ==
  IF n < Radix THEN <<Digits[n + 1]>>
  ELSE Append(NumberToString(n \div Radix), Digits[(n % Radix) + 1])

\* The value of a non-empty sequence of decimal digits
RECURSIVE DigitsValue(_)
DigitsValue(s) ==
  IF Len(s) = 0 THEN 0
  ELSE DigitsValue(SubSeq(s, 1, Len(s) - 1)) * Radix + DigitValue(s[Len(s)])

\* parseInt(s, 10) of a string without sign: leading white space is skipped,
\* the longest prefix of decimal digits is converted, NaN (Absent) if none.
ParseInt(s) ==
  LET ws   == {i \in 1..Len(s) : \A j \in 1..i : s[j] \in WhiteSpace}
      from == Cardinality(ws) + 1
      run  == {i \in from..Len(s) : \A j \in from..i : s[j] \in DigitChars}
  IN  IF run = {} THEN Absent
      ELSE Some(DigitsValue(SubSeq(s, from, from + Cardinality(run) - 1)))

\* Number(s) of a string made of white space, decimal digits and letters
\* (no sign, point, exponent or radix prefix; "Infinity" is not an input):
\* the trimmed string is empty (0), all digits (its value) or not a number.
ToNumber(s) ==
  LET t == Trim(s)
  IN  IF t = <<>> THEN Some(0)
      ELSE IF \A i \in 1..Len(t) : t[i] \in DigitChars THEN Some(DigitsValue(t))
      ELSE Absent

\* isNaN(Number(s))
IsNaNNumber(s) == ~IsPresent(ToNumber(s))

\* Array.prototype.join
RECURSIVE Join(_, _)
Join(list, sep) ==
  IF Len(list) = 0 THEN <<>>
  ELSE IF Len(list) = 1 THEN list[1]
  ELSE list[1] \o sep \o Join(Tail(list), sep)

\* The index of the first occurrence of pat in s, 0 when there is none
IndexOf(s, pat) ==
  LET hits == {i \in 1..(Len(s) - Len(pat) + 1) : SubSeq(s, i, i + Len(pat) - 1) = pat}
  IN  IF hits = {} THEN 0 ELSE CHOOSE i \in hits : \A j \in hits : i <= j

\* String.prototype.replace(pat, by) with a string pattern: the first
\* occurrence only (by holds no "$", so it is taken literally).
ReplaceFirst(s, pat, by) ==
  LET i == IndexOf(s, pat)
  IN  IF i = 0 THEN s
      ELSE SubSeq(s, 1, i - 1) \o by \o SubSeq(s, i + Len(pat), Len(s))

-----------------------------------------------------------------------------
(* The pure functions of main.mts *)

\* const SUBGRAPH_URLS: the own keys of the table, in insertion order
SupportedChainIds == << <<"1">> >>

\* The endpoint template of a supported chain, cut at the "[api-key]"
\* placeholder it holds.
UrlTemplate(id) ==
  <<"https://gateway-arbitrum.network.thegraph.com/api/", "[", "a", "p", "i", "-", "k",
    "e", "y", "]", "/deployments/id/QmZzsQGDmQFbzYkv2qx4pVnD6aVnuhKbD3t1ea7SAvV7zE">>

ApiKeyPlaceholder == <<"[", "a", "p", "i", "-", "k", "e", "y", "]">>

\* The property names every object inherits from Object.prototype: the
\* lookup SUBGRAPH_URLS[chainId] finds them although the table does not hold
\* them.
InheritedKeys ==
  { <<"c", "o", "n", "s", "t", "r", "u", "c", "t", "o", "r">>,
    <<"v", "a", "l", "u", "e", "O", "f">>,
    <<"t", "o", "S", "t", "r", "i", "n", "g">>,
    <<"t", "o", "L", "o", "c", "a", "l", "e", "S", "t", "r", "i", "n", "g">>,
    <<"h", "a", "s", "O", "w", "n", "P", "r", "o", "p", "e", "r", "t", "y">>,
    <<"i", "s", "P", "r", "o", "t", "o", "t", "y", "p", "e", "O", "f">>,
    <<"p", "r", "o", "p", "e", "r", "t", "y", "I", "s", "E", "n", "u", "m", "e", "r", "a", "b", "l", "e">>,
    <<"_", "_", "p", "r", "o", "t", "o", "_", "_">>,
    <<"_", "_", "d", "e", "f", "i", "n", "e", "G", "e", "t", "t", "e", "r", "_", "_">>,
    <<"_", "_", "d", "e", "f", "i", "n", "e", "S", "e", "t", "t", "e", "r", "_", "_">>,
    <<"_", "_", "l", "o", "o", "k", "u", "p", "G", "e", "t", "t", "e", "r", "_", "_">>,
    <<"_", "_", "l", "o", "o", "k", "u", "p", "S", "e", "t", "t", "e", "r", "_", "_">> }

\* SUBGRAPH_URLS[chainId]: an entry of the table, an inherited property
\* (truthy, without a decentralized field) or undefined.
SUBGRAPH_URLS(id) ==
  IF \E k \in 1..Len(SupportedChainIds) : SupportedChainIds[k] = id
    THEN Some([decentralized |-> Some(UrlTemplate(id))])
  ELSE IF id \in InheritedKeys
    THEN Some([decentralized |-> Absent])
  ELSE Absent

\* encodeURIComponent: A-Z a-z 0-9 - _ . ! ~ * ' ( ) are kept, every other
\* character becomes its percent-encoded UTF-8 bytes (the characters the
\* API keys of this model use).
EncodeChar(c) ==
  CASE c = "/" -> <<"%", "2", "F">>
    [] c = " " -> <<"%", "2", "0">>
    [] c = "$" -> <<"%", "2", "4">>
    [] c = "&" -> <<"%", "2", "6">>
    [] OTHER   -> <<c>>

RECURSIVE encodeURIComponent(_)
encodeURIComponent(s) ==
  IF Len(s) = 0 THEN <<>> ELSE EncodeChar(Head(s)) \o encodeURIComponent(Tail(s))

\* A value that can be thrown: typeof, whether it is null, its constructor
\* ("Error", "TypeError", ... for an error object, "Object" for a plain
\* object, "none" for a primitive or null) and its message property.
Thrown(type, null, class, message) ==
  [typeof |-> type, isNull |-> null, class |-> class, message |-> message]

\* new Error(message)
NewError(message) == Thrown("object", FALSE, "Error", Some(message))

\* function isError(e)
isError(e) == e.typeof = "object" /\ ~e.isNull /\ IsPresent(e.message)

\* `${error}` of a value isError accepts: Object.prototype.toString for a
\* plain object, Error.prototype.toString for an error object (the name, then
\* ": " and the message unless the message is empty).
ErrorToString(e) ==
  IF e.class = "Object" THEN <<"[object Object]">>
  ELSE IF Len(Get(e.message)) = 0 THEN <<e.class>>
  ELSE <<e.class, ": ">> \o Get(e.message)

UnsupportedChainMessage(id) ==
  <<"Unsupported or invalid Chain ID provided: ">> \o id
    \o <<". Only the following values are accepted: ">>
    \o Join(SupportedChainIds, <<", ">>)

\* A slip: the isNaN(Number(chainId)) test left out, so that an inherited
\* property passes as a table entry and urls.decentralized.replace throws a
\* TypeError.
prepareUrl_NoNaNTest(id, apiKey) ==
  LET urls == SUBGRAPH_URLS(id)
  IN  IF ~IsPresent(urls)
        THEN [ok |-> FALSE, error |-> NewError(UnsupportedChainMessage(id))]
      ELSE IF ~IsPresent(Get(urls).decentralized)
        THEN [ok |-> FALSE,
              error |-> Thrown("object", FALSE, "TypeError",
                 Some(<<"Cannot read properties of undefined (reading 'replace')">>))]
      ELSE [ok |-> TRUE,
            value |-> ReplaceFirst(Get(Get(urls).decentralized), ApiKeyPlaceholder,
                                   encodeURIComponent(apiKey))]

\* function prepareUrl(chainId, apiKey): [ok |-> TRUE, value |-> the url] or
\* [ok |-> FALSE, error |-> the error thrown]
prepareUrl(id, apiKey) ==
  LET urls == SUBGRAPH_URLS(id)
  IN  IF ~IsPresent(urls) \/ IsNaNNumber(id)
        THEN [ok |-> FALSE, error |-> NewError(UnsupportedChainMessage(id))]
        ELSE [ok |-> TRUE,
              value |-> ReplaceFirst(Get(Get(urls).decentralized), ApiKeyPlaceholder,
                                     encodeURIComponent(apiKey))]

\* A slip: /<[^>]+>/, which wants a character between "<" and ">"
containsHtmlOrMarkdown_NonEmptyTag(text) ==
  \E i \in 1..Len(text) :
    /\ text[i] = "<"
    /\ \E j \in (i + 2)..Len(text) :
         /\ text[j] = ">"
         /\ \A k \in (i + 1)..(j - 1) : text[k] # ">"

\* /<[^>]*>/.test(text): some "<" is followed, after characters that are
\* not ">", by a ">".
containsHtmlOrMarkdown(text) ==
  \E i \in 1..Len(text) :
    /\ text[i] = "<"
    /\ \E j \in (i + 1)..Len(text) :
         /\ text[j] = ">"
         /\ \A k \in (i + 1)..(j - 1) : text[k] # ">"

\* A slip: text.length >= maxLength, which cuts a text of exactly maxLength
truncateString_OffByOne(text, maxLength) ==
  IF Len(text) >= maxLength
    THEN Substring(text, 0, maxLength - EllipsisLength) \o <<".", ".", ".">>
    ELSE text

\* function truncateString(text, maxLength)
truncateString(text, maxLength) ==
  IF Len(text) > maxLength
    THEN Substring(text, 0, maxLength - EllipsisLength) \o <<".", ".", ".">>
    ELSE text

token0Invalid(pair) ==
  containsHtmlOrMarkdown(pair.token0.name) \/ containsHtmlOrMarkdown(pair.token0.symbol)

token1Invalid(pair) ==
  containsHtmlOrMarkdown(pair.token1.name) \/ containsHtmlOrMarkdown(pair.token1.symbol)

\* The filter of transformPairsToTags: the pairs pushed to validPairs
IsValidPair(pair) == ~(token0Invalid(pair) \/ token1Invalid(pair))

validPairs(ps) == SelectSeq(ps, IsValidPair)

\* The rejectedNames of transformPairsToTags: one entry per invalid token
RejectedOf(pair) ==
  (IF token0Invalid(pair)
     THEN << pair.token0.name \o <<", Symbol: ">> \o pair.token0.symbol >> ELSE <<>>)
  \o
  (IF token1Invalid(pair)
     THEN << pair.token1.name \o <<", Symbol: ">> \o pair.token1.symbol >> ELSE <<>>)

rejectedNames(ps) ==
  LET bad   == SelectSeq(ps, LAMBDA p : ~IsValidPair(p))
      \* two slots per rejected pair, token0's then token1's
      slots == [k \in 1..(2 * Len(bad)) |->
                  LET p == bad[(k + 1) \div 2]
                  IN  IF k % 2 = 1
                        THEN (IF token0Invalid(p) THEN Some(RejectedOf(p)[1]) ELSE Absent)
                        ELSE (IF token1Invalid(p)
                                THEN Some(RejectedOf(p)[Len(RejectedOf(p))]) ELSE Absent)]
      used  == SelectSeq(slots, IsPresent)
  IN  [k \in 1..Len(used) |-> Get(used[k])]

USDSlashC == <<"U", "S", "D", "/", "/", "C">>
USDC == <<"U", "S", "D", "C">>

symbolsText(pair) == Trim(pair.token0.symbol) \o <<"/">> \o Trim(pair.token1.symbol)

\* The template literal of "Public Note"
PublicNote(pair) ==
  <<"The pair contract on Uniswap v2 for the ">>
    \o Trim(ReplaceFirst(pair.token0.name, USDSlashC, USDC))
    \o <<" (">> \o Trim(pair.token0.symbol) \o <<") / ">>
    \o Trim(ReplaceFirst(pair.token1.name, USDSlashC, USDC))
    \o <<" (">> \o Trim(pair.token1.symbol) \o <<") pair.">>

\* The mapping of one valid pair, the body of validPairs.map
PairToTag(id, pair) ==
  [ContractAddress |-> <<"eip155:">> \o id \o <<":">> \o pair.id,
   PublicNameTag   |-> truncateString(symbolsText(pair), maxSymbolsLength) \o <<" Pair">>,
   ProjectName     |-> "Uniswap v2",
   WebsiteLink     |-> "https://uniswap.org",
   PublicNote      |-> PublicNote(pair)]

\* function transformPairsToTags(chainId, pairs)
transformPairsToTags(id, ps) ==
  LET valid == validPairs(ps)
  IN  [i \in 1..Len(valid) |-> PairToTag(id, valid[i])]

\* The console.log of transformPairsToTags, when anything was rejected
RejectionLog(ps) ==
  IF Len(rejectedNames(ps)) > 0
    THEN << [text |-> "Rejected token names due to HTML/Markdown content:",
             names |-> rejectedNames(ps)] >>
    ELSE <<>>

-----------------------------------------------------------------------------
(* The upstream GraphQL service *)

Letters == <<"a", "b", "c", "d", "e", "f", "g", "h", "i", "j", "k", "l", "m", "n",
             "o", "p", "q", "r", "s", "t", "u", "v", "w", "x", "y", "z", "A", "B">>

\* A symbol of n different characters
LongSymbol(n) == [k \in 1..n |-> Letters[k]]

\* The tokens the database draws from: plain ones, ones with white space
\* around, the "USD//C" name, ones that look like HTML, ones with "<" and ">"
\* that do not, and symbols long enough for the 45-character limit.
TokenPalette ==
  << [id |-> <<"0xt1">>, name |-> <<"D", "a", "i">>, symbol |-> <<"D", "A", "I">>],
     [id |-> <<"0xt2">>, name |-> <<" ", "E", "t", "h", "e", "r", " ">>,
                         symbol |-> <<" ", "W", "E", "T", "H", "\t">>],
     [id |-> <<"0xt3">>, name |-> <<"U", "S", "D", "/", "/", "C", " ", "C">>,
                         symbol |-> <<"U", "S", "D", "C">>],
     [id |-> <<"0xt4">>, name |-> <<"a", ">", "b", "<">>, symbol |-> <<">", "<">>],
     [id |-> <<"0xt5">>, name |-> <<"L", "2", "2">>, symbol |-> LongSymbol(22)],
     [id |-> <<"0xt6">>, name |-> <<"<", "b", ">", "x">>, symbol |-> <<"B">>],
     [id |-> <<"0xt7">>, name |-> <<"L", "2", "3">>, symbol |-> LongSymbol(23)],
     [id |-> <<"0xt8">>, name |-> <<"E", "v", "i", "l">>, symbol |-> <<"x", "<", ">">>],
     [id |-> <<"0xt9">>, name |-> <<"<", "<", "a">>, symbol |-> LongSymbol(27)] >>

NTokens == Len(TokenPalette)

\* The i-th pair of a database: stride pairs share one createdAtTimestamp and
\* shift moves the groups against the page boundaries; the tokens go through
\* every combination of the palette.
MakePair(i, stride, shift) ==
  [id |-> <<"0x">> \o NumberToString(i),
   createdAtTimestamp |-> BaseTimestamp + 1 + ((i + shift) \div stride),
   token0 |-> TokenPalette[(i % NTokens) + 1],
   token1 |-> TokenPalette[((i \div NTokens) % NTokens) + 1]]

\* A database of n pairs in ascending createdAtTimestamp order
MakeDb(n, stride, shift) == [i \in 1..n |-> MakePair(i, stride, shift)]

\* Database sizes around the page boundaries: none, one and 999 pairs, and
\* every number of full pages with and without a pair after them
DbSizes ==
  {0, 1, PageSize - 1}
    \cup {k * PageSize : k \in 1..MaxFullPages}
    \cup {k * PageSize + 1 : k \in 1..MaxFullPages}

\* The timestamps are all different, or shared by two pairs: the pairs 2k
\* and 2k + 1 (a group lies across every page boundary) or 2k - 1 and 2k.
Groupings == {<<1, 0>>, <<2, 0>>, <<2, 1>>}

\* The databases of the model, each named by its size and its grouping
Databases == {[size |-> n, stride |-> g[1], shift |-> g[2]] : n \in DbSizes, g \in Groupings}

\* The pairs the database named d holds
PairsOf(d) == MakeDb(d.size, d.stride, d.shift)

\* A slip: the where clause left out of the query
GET_POOLS_QUERY_NoWhere(data, cursor) == SubSeq(data, 1, Min(PageSize, Len(data)))

\* GET_POOLS_QUERY as the service answers it: first: 1000, orderBy
\* createdAtTimestamp asc, where createdAtTimestamp_gt: $lastTimestamp
GET_POOLS_QUERY(data, cursor) ==
  LET match == SelectSeq(data, LAMBDA p : p.createdAtTimestamp > cursor)
  IN  SubSeq(match, 1, Min(PageSize, Len(match)))

\* What fetch and response.json() can give for a query whose answer is page:
\* fetch rejects with a value, or gives a response with a status whose
\* response.json() rejects or gives a body.
Responses(page) ==
  LET none == [rejects |-> Absent, ok |-> TRUE, status |-> <<"200">>,
               jsonRejects |-> Absent, errors |-> Absent, data |-> Absent]
  IN  { [none EXCEPT !.data = Some([pairs |-> Some(page)])],
        [none EXCEPT !.ok = FALSE, !.status = <<"500">>],
        [none EXCEPT !.errors = Some(<< [message |-> <<"bad indexer">>],
                                        [message |-> <<"timeout">>] >>)],
        [none EXCEPT !.errors = Some(<<>>), !.data = Some([pairs |-> Some(page)])],
        none,
        [none EXCEPT !.data = Some([pairs |-> Absent])],
        [none EXCEPT !.jsonRejects =
           Some(Thrown("object", FALSE, "SyntaxError", Some(<<"Unexpected token">>)))],
        [none EXCEPT !.rejects = Some(NewError(<<>>))],
        [none EXCEPT !.rejects =
           Some(Thrown("object", FALSE, "FetchError", Some(<<"request failed">>)))],
        [none EXCEPT !.rejects =
           Some(Thrown("object", FALSE, "Object", Some(<<"request failed">>)))],
        [none EXCEPT !.rejects = Some(Thrown("string", FALSE, "none", Absent))],
        [none EXCEPT !.rejects = Some(Thrown("object", TRUE, "none", Absent))] }

\* What the transport saw of a response: everything but the records
ResponseShape(response) ==
  [rejects  |-> response.rejects, ok |-> response.ok, status |-> response.status,
   jsonRejects |-> response.jsonRejects, errors |-> response.errors,
   hasPairs |-> IsPresent(response.data) /\ IsPresent(Get(response.data).pairs)]

\* async function fetchData, from the settling of fetch to the call of
\* response.json(): [ok |-> FALSE, error |-> what is thrown] or [ok |-> TRUE]
fetchData_response(response) ==
  IF IsPresent(response.rejects)
    THEN [ok |-> FALSE, error |-> Get(response.rejects)]
  ELSE IF ~response.ok
    THEN [ok |-> FALSE, error |-> NewError(<<"HTTP error: ">> \o response.status)]
  ELSE [ok |-> TRUE]

\* A slip: if (result.errors && result.errors.length), which lets a body
\* with an empty errors list through
fetchData_result_EmptyErrorsPass(response) ==
  IF IsPresent(response.jsonRejects)
    THEN [ok |-> FALSE, error |-> Get(response.jsonRejects), logs |-> <<>>]
  ELSE IF IsPresent(response.errors) /\ Len(Get(response.errors)) > 0
    THEN [ok |-> FALSE,
          error |-> NewError(<<"GraphQL errors occurred: see logs for details.">>),
          logs |-> [k \in 1..Len(Get(response.errors)) |->
                      <<"GraphQL error: ">> \o Get(response.errors)[k].message]]
  ELSE IF ~IsPresent(response.data) \/ ~IsPresent(Get(response.data).pairs)
    THEN [ok |-> FALSE, error |-> NewError(<<"No pairs data found.">>), logs |-> <<>>]
  ELSE [ok |-> TRUE, value |-> Get(Get(response.data).pairs), logs |-> <<>>]

\* async function fetchData, from the settling of response.json() on:
\* [ok |-> TRUE, value |-> the pairs] or [ok |-> FALSE, error |-> what is
\* thrown], with the lines it writes to console.error
fetchData_result(response) ==
  IF IsPresent(response.jsonRejects)
    THEN [ok |-> FALSE, error |-> Get(response.jsonRejects), logs |-> <<>>]
  ELSE IF IsPresent(response.errors)
    THEN [ok |-> FALSE,
          error |-> NewError(<<"GraphQL errors occurred: see logs for details.">>),
          logs |-> [k \in 1..Len(Get(response.errors)) |->
                      <<"GraphQL error: ">> \o Get(response.errors)[k].message]]
  ELSE IF ~IsPresent(response.data) \/ ~IsPresent(Get(response.data).pairs)
    THEN [ok |-> FALSE, error |-> NewError(<<"No pairs data found.">>), logs |-> <<>>]
  ELSE [ok |-> TRUE, value |-> Get(Get(response.data).pairs), logs |-> <<>>]

-----------------------------------------------------------------------------
(* TagService.returnTags *)

ChainIds ==
  { <<"1">>, <<"2">>, <<"0", "1">>, <<" ", "1">>, <<>>, <<"a", "b", "c">>,
    <<"c", "o", "n", "s", "t", "r", "u", "c", "t", "o", "r">>,
    <<"t", "o", "S", "t", "r", "i", "n", "g">>,
    <<"_", "_", "p", "r", "o", "t", "o", "_", "_">> }

ApiKeys == { <<"k", "e", "y">>, <<"a", "/", "b", " ", "$", "&">> }

\* More fetches than any database of the model needs
MaxFetches == MaxFullPages + 2

\* pc is the state of the pipeline; awaiting is the promise the call is
\* suspended on while FETCHING ("fetch", "json", or "catch" when fetchData has
\* thrown and the catch block has not run yet); inflight is the response
\* whose body is being read.  db names the database of the upstream.
\* fetchCalls, responses and pages are what the transport was asked, what it
\* answered and what fetchData returned; thrown is the value thrown first.
\* settled is the state of the promise returnTags returned and outcome what
\* its caller has received of it.  stderr and stdout are the lines this
\* invocation writes to console.error and console.log.

NoOutcome == [kind |-> "pending"]

Init ==
  /\ pc = "START"
  /\ awaiting = "none"
  /\ inflight = Absent
  /\ db \in Databases
  /\ chainId = <<>>
  /\ url = <<>>
  /\ lastTimestamp = 0
  /\ allTags = <<>>
  /\ isMore = TRUE
  /\ counter = 0
  /\ fetchCalls = <<>>
  /\ responses = <<>>
  /\ pages = <<>>
  /\ thrown = Absent
  /\ settled = NoOutcome
  /\ outcome = NoOutcome
  /\ stderr = <<>>
  /\ stdout = <<>>

\* The request fetchData(url, cursor) hands to fetch, as the transport sees it
FetchCall(to, cursor) == [url |-> to, lastTimestamp |-> cursor]

\* returnTags up to its first await: the locals are set and prepareUrl runs;
\* what it throws is not caught and rejects the promise of the call.
\* Otherwise the loop is entered and fetchData calls fetch, all in the same
\* run.
Start ==
  /\ pc = "START"
  /\ \E id \in ChainIds, apiKey \in ApiKeys :
       LET r == prepareUrl(id, apiKey)
       IN  /\ chainId' = id
           /\ lastTimestamp' = 0
           /\ allTags' = <<>>
           /\ isMore' = TRUE
           /\ counter' = 0
           /\ IF r.ok
                THEN /\ url' = r.value
                     /\ pc' = "FETCHING"
                     /\ awaiting' = "fetch"
                     /\ fetchCalls' = Append(fetchCalls, FetchCall(r.value, 0))
                     /\ UNCHANGED <<thrown, settled>>
                ELSE /\ url' = url
                     /\ pc' = "FAILED"
                     /\ thrown' = Some(r.error)
                     /\ settled' = [kind |-> "error", error |-> r.error]
                     /\ UNCHANGED <<awaiting, fetchCalls>>
  /\ UNCHANGED <<db, inflight, responses, pages, outcome, stderr, stdout>>

\* await fetch(...) settles: fetch rejects or the status is not OK, and
\* fetchData throws; or fetchData calls response.json() and awaits it.
FetchSettles ==
  /\ pc = "FETCHING"
  /\ awaiting = "fetch"
  /\ \E response \in Responses(GET_POOLS_QUERY(PairsOf(db), lastTimestamp)) :
       LET r == fetchData_response(response)
       IN  /\ responses' = Append(responses, ResponseShape(response))
           /\ IF r.ok
                THEN /\ awaiting' = "json"
                     /\ inflight' = Some(response)
                     /\ UNCHANGED thrown
                ELSE /\ awaiting' = "catch"
                     /\ inflight' = Absent
                     /\ thrown' = Some(r.error)
  /\ UNCHANGED <<pc, db, chainId, url, lastTimestamp, allTags, isMore, counter,
                 fetchCalls, pages, settled, outcome, stderr, stdout>>

\* await response.json() settles: fetchData logs the errors of the body and
\* throws, or returns data.pairs, which the await of returnTags has yet to
\* receive.
JsonSettles ==
  /\ pc = "FETCHING"
  /\ awaiting = "json"
  /\ LET r == fetchData_result(Get(inflight))
     IN  /\ stderr' = stderr \o r.logs
         /\ IF r.ok
              THEN /\ pc' = "ACCUMULATING"
                   /\ awaiting' = "none"
                   /\ pages' = Append(pages, r.value)
                   /\ UNCHANGED thrown
              ELSE /\ awaiting' = "catch"
                   /\ thrown' = Some(r.error)
                   /\ UNCHANGED <<pc, pages>>
  /\ inflight' = Absent
  /\ UNCHANGED <<db, chainId, url, lastTimestamp, allTags, isMore, counter,
                 fetchCalls, responses, settled, outcome, stdout>>

\* A slip: the catch block logs and rethrows the error it caught
Caught_Rethrow(error) ==
  IF isError(error)
    THEN [logs  |-> << <<"An error occurred: ">> \o Get(error.message) >>,
          error |-> error]
    ELSE [logs  |-> << <<"An unknown error occurred.">> >>,
          error |-> error]

\* The catch block of returnTags: what it logs and what it throws
Caught(error) ==
  IF isError(error)
    THEN [logs  |-> << <<"An error occurred: ">> \o Get(error.message) >>,
          error |-> NewError(<<"Failed fetching data: ">> \o ErrorToString(error))]
    ELSE [logs  |-> << <<"An unknown error occurred.">> >>,
          error |-> NewError(<<"An unknown error occurred during fetch operation.">>)]

\* await fetchData(url, lastTimestamp) throws: the catch block logs and
\* throws a new error, which rejects the promise of the call.
Catch ==
  /\ pc = "FETCHING"
  /\ awaiting = "catch"
  /\ stderr' = stderr \o Caught(Get(thrown)).logs
  /\ settled' = [kind |-> "error", error |-> Caught(Get(thrown)).error]
  /\ pc' = "FAILED"
  /\ awaiting' = "none"
  /\ UNCHANGED <<db, inflight, chainId, url, lastTimestamp, allTags, isMore, counter,
                 fetchCalls, responses, pages, thrown, outcome, stdout>>

\* A slip: pairs[0], the first record of the page instead of the last
NextCursor_FirstRecord(ps) == Get(ParseInt(NumberToString(ps[1].createdAtTimestamp)))

\* parseInt(pairs[pairs.length - 1].createdAtTimestamp.toString(), 10)
NextCursor(ps) == Get(ParseInt(NumberToString(ps[Len(ps)].createdAtTimestamp)))

\* A slip: isMore = pairs.length > 0, paginating until an empty page
IsFullPage_NonEmpty(ps) == Len(ps) > 0

\* isMore = pairs.length === 1000
IsFullPage(ps) == Len(ps) = PageSize

\* A slip: allTags = tags, which forgets the earlier pages
Pushed_Overwrite(tags, more) == more

\* allTags.push(...tags)
Pushed(tags, more) == tags \o more

\* await fetchData(url, lastTimestamp) gives the page to pairs, and the
\* rest of the try block runs: the tags of the page are pushed, the counter
\* and the cursor advance, and the loop goes on, fetchData calling fetch in
\* the same run, or returnTags returns allTags, which fulfils its promise.
Accumulate ==
  /\ pc = "ACCUMULATING"
  /\ LET pairs  == pages[Len(pages)]
         tags   == Pushed(allTags, transformPairsToTags(chainId, pairs))
         more   == IsFullPage(pairs)
         cursor == IF more THEN NextCursor(pairs) ELSE lastTimestamp
     IN  /\ more => Len(fetchCalls) < MaxFetches
         /\ allTags' = tags
         /\ counter' = counter + 1
         /\ stdout' = stdout \o RejectionLog(pairs)
                        \o << <<"Retrieved first ">>
                                \o NumberToString((counter + 1) * PageSize)
                                \o <<" entries...">> >>
         /\ isMore' = more
         /\ lastTimestamp' = cursor
         /\ IF more
              THEN /\ pc' = "FETCHING"
                   /\ awaiting' = "fetch"
                   /\ fetchCalls' = Append(fetchCalls, FetchCall(url, cursor))
                   /\ UNCHANGED settled
              ELSE /\ pc' = "DONE"
                   /\ settled' = [kind |-> "tags", tags |-> tags]
                   /\ UNCHANGED <<awaiting, fetchCalls>>
  /\ UNCHANGED <<db, inflight, chainId, url, responses, pages, thrown, outcome, stderr>>

\* The caller of returnTags receives what its promise settled with, in a
\* later turn than the one that settled it.
Deliver ==
  /\ pc \in {"DONE", "FAILED"}
  /\ outcome = NoOutcome
  /\ outcome' = settled
  /\ UNCHANGED <<pc, awaiting, inflight, db, chainId, url, lastTimestamp, allTags, isMore,
                 counter, fetchCalls, responses, pages, thrown, settled, stderr, stdout>>

Next == Start \/ FetchSettles \/ JsonSettles \/ Catch \/ Accumulate \/ Deliver

Spec == Init /\ [][Next]_vars

\* The steps of FetchSettles, JsonSettles and Catch as pc and awaiting show
\* them.  Under Spec a step that changes <<pc, awaiting>> from a state where
\* pc = "FETCHING" is a step of the one of the three that awaiting enables,
\* and one of them is enabled whenever pc = "FETCHING".
AwaitStep ==
  /\ pc = "FETCHING"
  /\ pc' \in {"FETCHING", "ACCUMULATING", "FAILED"}
  /\ awaiting' \in {"json", "catch", "none"}

\* The step of Accumulate as pc shows it.  Under Spec a step that takes pc
\* from "ACCUMULATING" is a step of Accumulate, and Accumulate is enabled
\* whenever pc = "ACCUMULATING" (MaxFetches is never met).
AccumulateStep == pc = "ACCUMULATING" /\ pc' \in {"FETCHING", "DONE"}

\* Every awaited promise settles, and the continuation of the call then
\* runs to its next await or to its end: weak fairness of every step after
\* Start, stated on pc and awaiting (see AwaitStep and AccumulateStep) and
\* on outcome.
FairSpec ==
  /\ Spec
  /\ WF_<<pc, awaiting>>(AwaitStep)
  /\ WF_pc(AccumulateStep)
  /\ WF_outcome(Deliver)

-----------------------------------------------------------------------------
(* Definitions the properties share *)

RECURSIVE Concat(_)
Concat(seqs) == IF Len(seqs) = 0 THEN <<>> ELSE Head(seqs) \o Concat(Tail(seqs))

\* The pages whose tags have been pushed: all the pages received, but the
\* one the call is about to accumulate.
ProcessedPages == IF pc = "ACCUMULATING" THEN SubSeq(pages, 1, Len(pages) - 1) ELSE pages

FullPageIndexes(ps) == {i \in 1..Len(ps) : Len(ps[i]) = PageSize}

\* A "<...>" substring: a "<" with a ">" somewhere after it
HasTagLikeSubstring(text) ==
  \E i \in 1..Len(text) : \E j \in (i + 1)..Len(text) : text[i] = "<" /\ text[j] = ">"

PairIsClean(pair) ==
  /\ ~HasTagLikeSubstring(pair.token0.name)
  /\ ~HasTagLikeSubstring(pair.token0.symbol)
  /\ ~HasTagLikeSubstring(pair.token1.name)
  /\ ~HasTagLikeSubstring(pair.token1.symbol)

AddressOf(pair) == <<"eip155:">> \o chainId \o <<":">> \o pair.id

\* t is the largest createdAtTimestamp of the page
IsMaxTimestamp(t, page) ==
  /\ \E i \in 1..Len(page) : page[i].createdAtTimestamp = t
  /\ \A i \in 1..Len(page) : page[i].createdAtTimestamp <= t

\* The states in which the loop has just turned or ended: a fetch has been
\* issued and not answered, or the call has returned.  allTags and the pages
\* processed change in no step but the one that leads here.
AtLoopTurn == pc = "DONE" \/ (pc = "FETCHING" /\ awaiting = "fetch")

\* What the claims call a failed fetch: the transport rejects, the HTTP
\* status is not OK, the body cannot be read, it carries an errors list, or
\* data.pairs is missing.
IsFailure(shape) ==
  \/ IsPresent(shape.rejects)
  \/ ~shape.ok
  \/ IsPresent(shape.jsonRejects)
  \/ IsPresent(shape.errors)
  \/ ~shape.hasPairs

IsSupported(id) == \E k \in 1..Len(SupportedChainIds) : SupportedChainIds[k] = id

-----------------------------------------------------------------------------
(* C1 *)

\* C1: returnTags stops paginating at the first page of fewer than 1000
\* records and goes on after every page of exactly 1000: when it returns, the
\* pages received have sizes [1000, ..., 1000, k] with k < 1000, exactly
\* (number of full pages + 1) fetches were issued, and the list returned is
\* the concatenation, page by page and record by record, of the tags of the
\* valid records of those pages.
C1_PaginationStopsAtShortPage ==
  /\ \A i \in 1..(Len(pages) - 1) : Len(pages[i]) = PageSize
  /\ (pc = "FETCHING" /\ Len(pages) > 0) => Len(pages[Len(pages)]) = PageSize
  /\ pc = "DONE" =>
       /\ Len(pages) > 0
       /\ Len(pages[Len(pages)]) < PageSize
       /\ Len(fetchCalls) = Cardinality(FullPageIndexes(pages)) + 1
       /\ settled = [kind |-> "tags",
                     tags |-> Concat([i \in 1..Len(pages) |->
                                        transformPairsToTags(chainId, pages[i])])]
       /\ outcome \in {NoOutcome, settled}

\* Two full pages with valid records, then an empty page, then the return.
C1_Witness ==
  /\ pc = "DONE"
  /\ Len(pages) >= 3
  /\ Len(pages[Len(pages)]) = 0
  /\ outcome.kind = "tags"
  /\ Len(outcome.tags) > PageSize

-----------------------------------------------------------------------------
(* C2 *)

\* After a failed fetch: it is the last fetch issued, no page came of it,
\* the call is on its way to the catch block or has rejected with an error,
\* and no tags are returned: the caller has received nothing yet, or the
\* error.
AbortedBy(i) ==
  /\ i = Len(fetchCalls)
  /\ Len(pages) = i - 1
  /\ pc \in {"FETCHING", "FAILED"}
  /\ pc = "FETCHING" => awaiting \in {"json", "catch"}
  /\ pc = "FAILED" => settled.kind = "error"
  /\ settled.kind # "tags"
  /\ outcome \in {NoOutcome, settled}

\* C2: a failed fetch on any page aborts returnTags: the failed fetch is the
\* last fetch issued (every fetch is answered before the next is issued),
\* the call rejects with an error, and no tags (the ones of the earlier
\* pages included) are returned.
C2_FetchFailureAborts ==
  /\ [](/\ Len(responses) \in {Len(fetchCalls) - 1, Len(fetchCalls)}
        /\ \A i \in 1..Len(responses) : IsFailure(responses[i]) => AbortedBy(i))
  /\ (Len(responses) > 0 /\ IsFailure(responses[Len(responses)]))
       ~> (pc = "FAILED" /\ outcome.kind = "error")

\* A fetch fails with an HTTP status after a page whose tags were pushed.
C2_Witness ==
  /\ pc = "FAILED"
  /\ outcome.kind = "error"
  /\ Len(allTags) > 0
  /\ Len(responses) >= 2
  /\ ~responses[Len(responses)].ok

-----------------------------------------------------------------------------
(* C3 *)

\* C3: for a network identifier that is not in the table of supported
\* networks, or is not numeric, returnTags fails before any fetch with the
\* error whose message names the identifier and lists exactly the supported
\* identifiers; for a supported identifier the endpoint is resolved and every
\* fetch of the invocation uses that one endpoint.
C3_UnsupportedNetworkFailsBeforeFetch ==
  pc # "START" =>
    IF IsSupported(chainId) /\ ~IsNaNNumber(chainId)
      THEN /\ url # <<>>
           /\ Len(fetchCalls) > 0
           /\ \A i \in 1..Len(fetchCalls) : fetchCalls[i].url = url
      ELSE /\ pc = "FAILED"
           /\ Len(fetchCalls) = 0
           /\ settled.kind = "error"
           /\ outcome \in {NoOutcome, settled}
           /\ LET msg == Get(settled.error.message)
                  at  == IndexOf(msg, <<". Only the following values are accepted: ">>)
              IN  /\ at > 0
                  /\ SubSeq(msg, 1, at - 1)
                       = <<"Unsupported or invalid Chain ID provided: ">> \o chainId
                  /\ SubSeq(msg, at + 1, Len(msg)) = Join(SupportedChainIds, <<", ">>)

\* An identifier that the table lookup finds (an inherited property) and
\* that is not numeric is refused without a fetch.
C3_Witness ==
  /\ pc = "FAILED"
  /\ outcome.kind = "error"
  /\ chainId \in InheritedKeys
  /\ Len(fetchCalls) = 0

-----------------------------------------------------------------------------
(* C4 *)

IsSuffix(tail, whole) ==
  /\ Len(tail) <= Len(whole)
  /\ SubSeq(whole, Len(whole) - Len(tail) + 1, Len(whole)) = tail

\* The error the caller receives is a new error: another value than the
\* one thrown, an Error with a message.
IsWrapped(received, original) ==
  /\ received # original
  /\ received.class = "Error"
  /\ IsPresent(received.message)
  /\ Len(Get(received.message)) > 0

\* The text a template literal makes of a thrown value that has a message:
\* "[object Object]" for a plain object, the name of an error object, with
\* ": " and its message when the message is not empty.
TextOf(e) ==
  CASE e.class = "Object" -> <<"[object Object]">>
    [] e.class # "Object" /\ Get(e.message) = <<>> -> <<e.class>>
    [] OTHER -> <<e.class>> \o <<": ">> \o Get(e.message)

\* C4 as the claim states it: whenever returnTags fails, whatever the kind of
\* error (UnsupportedNetwork included), something was logged to console.error
\* and the caller receives not the error thrown but a new error wrapping it.
C4_EveryErrorLoggedAndWrapped ==
  outcome.kind = "error" =>
    /\ Len(stderr) > 0
    /\ IsWrapped(outcome.error, Get(thrown))

\* C4, amended: an error thrown by a fetch (TransportError, UpstreamError,
\* MalformedResponse, or a thrown value that is no error) is logged to
\* console.error, the last line logged being "An error occurred: " and its
\* message, and the caller receives a new error: "Failed fetching data: "
\* followed by the text of the value thrown, which ends with its message when
\* it is an error object; or the fixed unknown-error line and message when
\* the value thrown is not an error.  The UnsupportedNetwork error of
\* prepareUrl is thrown before the try block: it is not logged and the caller
\* receives that error itself.
C4_FetchErrorsLoggedAndWrapped ==
  outcome.kind = "error" =>
    /\ pc = "FAILED"
    /\ IsPresent(thrown)
    /\ IF Len(fetchCalls) > 0
         THEN /\ Len(stderr) > 0
              /\ IsWrapped(outcome.error, Get(thrown))
              /\ IF isError(Get(thrown))
                   THEN /\ stderr[Len(stderr)]
                             = <<"An error occurred: ">> \o Get(Get(thrown).message)
                        /\ Get(outcome.error.message)
                             = <<"Failed fetching data: ">> \o TextOf(Get(thrown))
                        /\ Get(thrown).class # "Object" =>
                             IsSuffix(Get(Get(thrown).message),
                                      Get(outcome.error.message))
                   ELSE /\ stderr[Len(stderr)] = <<"An unknown error occurred.">>
                        /\ Get(outcome.error.message)
                             = <<"An unknown error occurred during fetch operation.">>
         ELSE /\ stderr = <<>>
              /\ outcome.error = Get(thrown)
              /\ ~IsSupported(chainId)

\* The second fetch answers without data.pairs: the error is logged and
\* wrapped.
C4_Witness ==
  /\ outcome.kind = "error"
  /\ Len(fetchCalls) >= 2
  /\ isError(Get(thrown))
  /\ Get(Get(thrown).message) = <<"No pairs data found.">>
  /\ Len(stderr) > 0

-----------------------------------------------------------------------------
(* C5 *)

\* C5: a fetched pair yields a tag if and only if none of the names and
\* symbols of its two tokens holds a "<...>" substring: every time the loop
\* turns or ends, the tags pushed so far are, one for one and in the same
\* order, the clean pairs of the pages processed; a rejected pair fails
\* nothing and stops nothing.
C5_TagIffNoMarkup ==
  /\ AtLoopTurn =>
       LET clean == SelectSeq(Concat(ProcessedPages), PairIsClean)
       IN  /\ Len(allTags) = Len(clean)
           /\ \A k \in 1..Len(clean) : allTags[k].ContractAddress = AddressOf(clean[k])
  /\ pc = "FAILED" => (Len(fetchCalls) = 0 \/ IsFailure(responses[Len(responses)]))

\* A run over several pages returns tags although pairs were rejected in
\* every page.
C5_Witness ==
  /\ pc = "DONE"
  /\ Len(pages) >= 2
  /\ Len(stdout) >= 2 * Len(pages)
  /\ Len(allTags) > 0
  /\ Len(allTags) < Len(Concat(pages))

-----------------------------------------------------------------------------
(* C6 *)

Ellipsis == <<".", ".", ".">>

\* The symbol text of the claim: the two trimmed symbols around a "/"
ClaimSymbolText(pair) == Trim(pair.token0.symbol) \o <<"/">> \o Trim(pair.token1.symbol)

\* C6: for every valid pair the "Public Name Tag" is the symbol text, then
\* " Pair", where the symbol text is unchanged when it is at most 45
\* characters long and is otherwise its first 42 characters and "...": at
\* most 45 characters in any case, exactly 45 after a truncation (of the
\* tags pushed so far, every time the loop turns or ends).
C6_SymbolTextTruncatedTo45 ==
  AtLoopTurn =>
    LET clean == SelectSeq(Concat(ProcessedPages), PairIsClean)
    IN  /\ Len(allTags) = Len(clean)
        /\ \A k \in 1..Len(clean) :
             LET text == ClaimSymbolText(clean[k])
                 tag  == allTags[k].PublicNameTag
                 body == SubSeq(tag, 1, Len(tag) - 1)
             IN  /\ tag[Len(tag)] = " Pair"
                 /\ Len(body) <= maxSymbolsLength
                 /\ Len(text) <= maxSymbolsLength => body = text
                 /\ Len(text) > maxSymbolsLength =>
                      /\ body = SubSeq(text, 1, maxSymbolsLength - EllipsisLength) \o Ellipsis
                      /\ Len(body) = maxSymbolsLength

\* Tags were made of a symbol text of exactly 45 characters, of one of 46
\* characters and of one of more than 48.
C6_Witness ==
  LET clean == SelectSeq(Concat(ProcessedPages), PairIsClean)
  IN  /\ AtLoopTurn
      /\ Len(allTags) = Len(clean)
      /\ \E k \in 1..Len(clean) : Len(ClaimSymbolText(clean[k])) = maxSymbolsLength
      /\ \E k \in 1..Len(clean) : Len(ClaimSymbolText(clean[k])) = maxSymbolsLength + 1
      /\ \E k \in 1..Len(clean) :
           /\ Len(ClaimSymbolText(clean[k])) > maxSymbolsLength + EllipsisLength
           /\ Len(allTags[k].PublicNameTag) = maxSymbolsLength + 1

-----------------------------------------------------------------------------
(* C7 *)

\* C7: the first fetch is sent with cursor 0; a fetch after a page of exactly
\* 1000 records is sent with the largest createdAtTimestamp of that page,
\* which is its last record's; the cursor is what the last full page
\* processed made it, so a short page and a failed fetch leave it unchanged.
C7_CursorIsMaxOfLastFullPage ==
  /\ Len(fetchCalls) > 0 => fetchCalls[1].lastTimestamp = 0
  /\ \A i \in 2..Len(fetchCalls) :
       /\ Len(pages[i - 1]) = PageSize
       /\ IsMaxTimestamp(fetchCalls[i].lastTimestamp, pages[i - 1])
       /\ fetchCalls[i].lastTimestamp = pages[i - 1][PageSize].createdAtTimestamp
  /\ LET full == FullPageIndexes(ProcessedPages)
     IN  IF full = {} THEN lastTimestamp = 0
         ELSE IsMaxTimestamp(lastTimestamp, pages[Cardinality(full)])

\* Three fetches, each with a larger cursor, the last one failing.
C7_Witness ==
  /\ pc = "FAILED"
  /\ Len(fetchCalls) >= 3
  /\ fetchCalls[2].lastTimestamp > 0
  /\ fetchCalls[3].lastTimestamp > fetchCalls[2].lastTimestamp
  /\ lastTimestamp = fetchCalls[3].lastTimestamp

-----------------------------------------------------------------------------
(* C8 *)

Step(from, to) == pc = from /\ pc' = to

\* The changes of pc that START -> {FETCHING <-> ACCUMULATING} -> DONE
\* allows, with FAILED entered from a fetch
PipelineStep ==
  \/ Step("START", "FETCHING")
  \/ Step("FETCHING", "ACCUMULATING")
  \/ Step("FETCHING", "FAILED")
  \/ Step("ACCUMULATING", "FETCHING") /\ Len(pages[Len(pages)]) = PageSize
  \/ Step("ACCUMULATING", "DONE") /\ Len(pages[Len(pages)]) < PageSize

\* Tags are returned only in DONE and an error is raised only in FAILED
OutcomeMatchesState ==
  /\ settled.kind = "tags" <=> pc = "DONE"
  /\ settled.kind = "error" <=> pc = "FAILED"
  /\ pc = "DONE" => settled.tags = allTags
  /\ outcome \in {NoOutcome, settled}

\* C8 as the claim states it: every step is a step of START -> {FETCHING <->
\* ACCUMULATING} -> DONE, FAILED is entered only from a fetch step, DONE only
\* after a page of fewer than 1000 records, FETCHING is re-entered only after
\* a page of exactly 1000, DONE and FAILED are terminal and exclusive.
C8_FailedOnlyFromFetch ==
  /\ [][PipelineStep]_pc
  /\ []OutcomeMatchesState

\* C8, amended: as stated, but FAILED is entered from a fetch step or from
\* START, when prepareUrl refuses the network identifier.
C8_FailedFromFetchOrStart ==
  /\ [][PipelineStep \/ (Step("START", "FAILED") /\ Len(fetchCalls) = 0)]_pc
  /\ []OutcomeMatchesState

\* The call failed without having entered FETCHING.
C8_Witness ==
  /\ pc = "FAILED"
  /\ outcome.kind = "error"
  /\ chainId = <<"2">>
  /\ url = <<>>
  /\ Len(fetchCalls) = 0

-----------------------------------------------------------------------------
(* C9 *)

\* C9: with an upstream that holds a fixed set of pairs and answers every
\* query with the first up-to-1000 pairs after the cursor and never fails, a
\* returnTags that returns has one tag for every valid pair of the upstream,
\* none omitted and none twice, also when pairs share a createdAtTimestamp
\* around a page boundary.
C9_EveryValidPairTaggedOnce ==
  outcome.kind = "tags" =>
    LET valid     == SelectSeq(PairsOf(db), PairIsClean)
        expected  == {AddressOf(valid[i]) : i \in 1..Len(valid)}
        addresses == {outcome.tags[k].ContractAddress : k \in 1..Len(outcome.tags)}
    IN  /\ addresses = expected
        /\ Len(outcome.tags) = Cardinality(expected)

-----------------------------------------------------------------------------
(* C10 *)

CursorsIncrease ==
  \A i \in 1..Len(fetchCalls) : \A j \in (i + 1)..Len(fetchCalls) :
    fetchCalls[i].lastTimestamp < fetchCalls[j].lastTimestamp

\* C10: with an upstream that honours createdAtTimestamp > cursor over
\* finitely many pairs of positive timestamps, the cursor grows from each
\* fetch to the next, so that no cursor is queried twice, and every
\* invocation of returnTags reaches DONE or FAILED (before the model's cap
\* on the number of fetches is met, so that the cap cuts no run short).
C10_CursorGrowsAndCallEnds ==
  /\ [](CursorsIncrease /\ Len(fetchCalls) < MaxFetches)
  /\ (pc # "START") ~> (pc \in {"DONE", "FAILED"} /\ outcome.kind # "pending")

\* A call that returned after as many fetches as the largest database needs.
C10_Witness ==
  /\ pc = "DONE"
  /\ outcome.kind = "tags"
  /\ Len(fetchCalls) = MaxFullPages + 1
  /\ CursorsIncrease
  /\ db.size > MaxFullPages * PageSize

====
